---------------------------- MODULE Spec2Model ----------------------------
(***************************************************************************)
(* A model of backend/clean_transform.py: the batch run main() that reads  *)
(* a raw trip CSV, validates every row through an ordered list of stages,  *)
(* writes accepted rows to the cleaned output and rejected rows to the     *)
(* exclusion log, and ends with a run summary.                             *)
(* A second part models backend/load_data.py, the bulk loader that checks  *)
(* the header of the cleaned file and copies its rows into the trips table.*)
(*                                                                         *)
(* Numbers are fixed point.  A numeric cell holds an integer count of the  *)
(* quantum of its column: 1e-4 degree for coordinates, 0.1 for distance,   *)
(* fare and tip, 1 for the passenger count.  A resolved distance is an     *)
(* integer count of 1e-6 km, an average speed of 1e-3 km/h, an instant of  *)
(* 1/TicksPerSec seconds since Monday 2016-03-14 00:00:00.                 *)
(*                                                                         *)
(* The environment: every open() of main() may fail (the input, the        *)
(* output, the log, and at the end the stats path, whose directory main()  *)
(* does not create); a write to a file that is open always succeeds.       *)
(***************************************************************************)
EXTENDS Integers, Sequences, FiniteSets, TLC

(***************************************************************************)
(* Bounds of the model.                                                    *)
(***************************************************************************)
MaxRows == 3
TicksPerSec == 2

(***************************************************************************)
(* Program constants (clean_transform.py lines 9-15, 135).                 *)
(***************************************************************************)
NYC_LAT_MIN == 404774
NYC_LAT_MAX == 409176
NYC_LON_MIN == 0 - 742591
NYC_LON_MAX == 0 - 737004
MAX_SPEED_KMPH == 120
MAX_FARE == 5000
MILES_TO_KM == 160934
KM_TO_KM == 100000

(***************************************************************************)
(* Cells and optional values.  Every cell and every parsed value is a      *)
(* record [k, v]: k is the kind and v the integer it carries (0 when the   *)
(* kind carries none).                                                     *)
(*   "none"   Python None (a missing column, or an absent value)           *)
(*   "empty"  the empty cell ""                                            *)
(*   "null"   the placeholder sentinel \N                                  *)
(*   "junk"   text that is neither a number nor a timestamp                *)
(*   "int"    an integer literal, such as 3 or -1                          *)
(*   "dec"    a decimal literal with a point, such as 3.0 or 12.5          *)
(*   "nan"    the text nan, which float() accepts                          *)
(*   timestamps: "ymd_hms" 2016-03-14 17:24:55, "ymd_hm" 2016-03-14 17:24, *)
(*   "mdy_hms" 03/14/2016 17:24:55, "ymd_hms_f" 2016-03-14 17:24:55.5,     *)
(*   "iso_tz" 2016-03-14T17:24:55Z                                         *)
(* Parsed values have kind "none", "num", "nan" or "dt".                   *)
(***************************************************************************)
None == [k |-> "none", v |-> 0]
Cell(kind, val) == [k |-> kind, v |-> val]
Num(val) == [k |-> "num", v |-> val]
NaN == [k |-> "nan", v |-> 0]
EmptyCell == Cell("empty", 0)
NullCell == Cell("null", 0)

TsFormats == {"ymd_hms", "ymd_hm", "mdy_hms", "ymd_hms_f", "iso_tz"}

\* parse_float: "", \N and None are absent; float() accepts integer and
\* decimal literals and nan; anything else raises and is caught.
parse_float(c) ==
    IF c.k \in {"none", "empty", "null"} THEN None
    ELSE IF c.k \in {"int", "dec"} THEN Num(c.v)
    ELSE IF c.k = "nan" THEN NaN
    ELSE None

\* parse_int: int() of a string accepts an integer literal only; a decimal
\* literal, nan and junk raise ValueError, which is caught.
parse_int(c) ==
    IF c.k \in {"none", "empty", "null"} THEN None
    ELSE IF c.k = "int" THEN Num(c.v)
    ELSE None

\* parse_dt: a falsy cell is absent; after T -> space and Z -> "" the four
\* patterns are tried in order; no match is absent.
parse_dt(c) ==
    IF c.k \in {"none", "empty"} THEN None
    ELSE IF c.k \in TsFormats THEN [k |-> "dt", v |-> c.v]
    ELSE None

\* get_field: the first name that is a column of the row and whose cell is
\* neither None nor "".
RECURSIVE get_field(_, _)
get_field(row, names) ==
    IF names = <<>> THEN None
    ELSE IF Head(names) \in DOMAIN row /\ row[Head(names)] \notin {None, EmptyCell}
         THEN row[Head(names)]
         ELSE get_field(row, Tail(names))

\* in_bbox: a missing coordinate fails; nan fails every comparison.
in_bbox(lat, lon) ==
    IF lat = None \/ lon = None THEN FALSE
    ELSE /\ lat.k = "num" /\ lon.k = "num"
         /\ NYC_LAT_MIN <= lat.v /\ lat.v <= NYC_LAT_MAX
         /\ NYC_LON_MIN <= lon.v /\ lon.v <= NYC_LON_MAX


(***************************************************************************)
(* Geo evaluator.  The three in-box points the inputs use, in 1e-4 degree, *)
(* and the great-circle distance haversine_km returns for them, in 1e-6 km *)
(* (the source's floating-point result at R = 6371.0, to six decimals).    *)
(***************************************************************************)
P1 == <<407589, 0 - 739851>>
P2 == <<407489, 0 - 739680>>
P3 == <<406413, 0 - 737781>>

haversine_km(lat1, lon1, lat2, lon2) ==
    LET a == <<lat1.v, lon1.v>>
        b == <<lat2.v, lon2.v>>
    IN  IF a = b THEN Num(0)
        ELSE CASE {a, b} = {P1, P2} -> Num(1819646)
               [] {a, b} = {P1, P3} -> Num(21806078)
               [] {a, b} = {P2, P3} -> Num(19986668)

(***************************************************************************)
(* Arithmetic helpers.                                                     *)
(***************************************************************************)
\* int(x) of a quotient a/b, b > 0: truncation toward zero.
Trunc(a, b) == IF a >= 0 THEN a \div b ELSE 0 - ((0 - a) \div b)

\* round(a/b) to the nearest integer, a >= 0, b > 0.
RoundDiv(a, b) == (2 * a + b) \div (2 * b)

\* floor(a * 10^digits / b) by long division, a >= 0, b > 0: no
\* intermediate value exceeds 10 * b.
RECURSIVE LongRem(_, _, _)
LongRem(a, b, digits) ==
    IF digits = 0 THEN a % b
    ELSE (LongRem(a, b, digits - 1) * 10) % b
RECURSIVE LongDiv(_, _, _)
LongDiv(a, b, digits) ==
    IF digits = 0 THEN a \div b
    ELSE LET q == LongDiv(a, b, digits - 1)
             r == LongRem(a, b, digits - 1)
         IN  q * 10 + (r * 10) \div b

(***************************************************************************)
(* The fields of one row, as main() reads them (lines 111-151, 195-196).   *)
(***************************************************************************)
p_ts(row) == get_field(row, <<"tpep_pickup_datetime", "pickup_datetime">>)
d_ts(row) == get_field(row, <<"tpep_dropoff_datetime", "dropoff_datetime">>)
p_dt(row) == parse_dt(p_ts(row))
d_dt(row) == parse_dt(d_ts(row))
plat(row) == parse_float(get_field(row, <<"pickup_latitude", "pickup_lat">>))
plon(row) == parse_float(get_field(row, <<"pickup_longitude", "pickup_lon", "pickup_lng">>))
dlat(row) == parse_float(get_field(row, <<"dropoff_latitude", "dropoff_lat">>))
dlon(row) == parse_float(get_field(row, <<"dropoff_longitude", "dropoff_lon", "dropoff_lng">>))
reported_dist(row) == parse_float(get_field(row, <<"trip_distance", "distance", "trip_distance_km">>))
fare(row) == parse_float(get_field(row, <<"fare_amount", "fare", "total_amount">>))
tip(row) == parse_float(get_field(row, <<"tip_amount", "tip">>))
hv_km_pre(row) == haversine_km(plat(row), plon(row), dlat(row), dlon(row))

\* A slip in lines 134-137: a reported distance that is not positive is
\* treated as missing.
resolve_distance_positive_only(reported, hv, unit) ==
    IF reported # None /\ (reported.k = "nan" \/ reported.v > 0)
    THEN IF reported.k = "nan" THEN NaN
         ELSE Num(reported.v * (IF unit = "miles" THEN MILES_TO_KM ELSE KM_TO_KM))
    ELSE hv

\* Lines 134-137: the resolved distance in 1e-6 km.  A reported distance,
\* whatever its sign, is converted; only an absent one falls back.
resolve_distance(reported, hv, unit) ==
    IF reported # None
    THEN IF reported.k = "nan" THEN NaN
         ELSE Num(reported.v * (IF unit = "miles" THEN MILES_TO_KM ELSE KM_TO_KM))
    ELSE hv

dist_km(row, unit) == resolve_distance(reported_dist(row), hv_km_pre(row), unit)

\* Line 163: int((d_dt - p_dt).total_seconds()).
duration_sec(row) == Trunc(d_dt(row).v - p_dt(row).v, TicksPerSec)

\* Line 195: parse_int(...) or 1.  Python's "or" takes the right operand
\* when the left is falsy: None and 0 both are.
passenger_count(row) ==
    LET n == parse_int(get_field(row, <<"passenger_count", "passengers">>))
    IN  IF n = None \/ n.v = 0 THEN 1 ELSE n.v

(***************************************************************************)
(* The conditions of the validation stages, in the order main() tests them.*)
(* A comparison with nan is false.                                         *)
(***************************************************************************)
\* A slip in line 115: < for <=.
bad_timestamps_strict(p, d) == p = None \/ d = None \/ d.v < p.v
bad_timestamps(p, d) == p = None \/ d = None \/ d.v <= p.v
bad_coordinates(row) ==
    ~in_bbox(plat(row), plon(row)) \/ ~in_bbox(dlat(row), dlon(row))
\* A slip in line 138: <= for <.
bad_distance_or_zero(dist) == dist = None \/ (dist.k = "num" /\ dist.v <= 0)
bad_distance(dist) == dist = None \/ (dist.k = "num" /\ dist.v < 0)
zero_distance(dist) == dist.k = "num" /\ dist.v = 0
bad_fare(f) == f # None /\ f.k = "num" /\ (f.v < 0 \/ f.v > MAX_FARE)
bad_tip(t) == t # None /\ t.k = "num" /\ t.v < 0
nonpositive_duration(dur) == dur <= 0
\* dist_km / (duration_sec / 3600.0) > 120, with dist in 1e-6 km:
\* dist * 3600 / (dur * 10^6) > 120, cross-multiplied.
implausible_speed(dist, dur) ==
    dist.k = "num" /\ dist.v * 9 > MAX_SPEED_KMPH * dur * 2500

(***************************************************************************)
(* Derived metrics of an accepted row (lines 170-202).                     *)
(***************************************************************************)
\* round(dist_km / hours, 3) in 1e-3 km/h: dist * 3600 * 1000 / (dur * 10^6).
avg_speed_kmh(dist, dur) ==
    IF dist.k = "nan" THEN NaN ELSE Num(RoundDiv(dist.v * 18, dur * 5))

\* round(fare / dist_km, 3) in 1e-3 per km when the fare is present and
\* dist_km > 0 (false for nan), else absent: fare * 10^8 / dist.
fare_per_km(f, dist) ==
    IF f # None /\ dist.k = "num" /\ dist.v > 0
    THEN IF f.k = "nan" THEN NaN
         ELSE Num((LongDiv(f.v, dist.v, 9) + 5) \div 10)
    ELSE None

\* strftime("%Y-%m-%d %H:%M:%S"): the instant in whole seconds.
strftime(dt) == dt.v \div TicksPerSec
pickup_hour(dt) == (strftime(dt) % 86400) \div 3600
weekday(dt) == (strftime(dt) \div 86400) % 7
is_weekend(dt) == IF weekday(dt) >= 5 THEN 1 ELSE 0

\* Lines 184-203: the cleaned record.
CleanedTrip(row, unit) ==
    [ pickup_datetime   |-> strftime(p_dt(row)),
      dropoff_datetime  |-> strftime(d_dt(row)),
      pickup_lat        |-> plat(row),
      pickup_lon        |-> plon(row),
      dropoff_lat       |-> dlat(row),
      dropoff_lon       |-> dlon(row),
      trip_distance_km  |-> dist_km(row, unit),
      trip_duration_sec |-> duration_sec(row),
      fare_amount       |-> fare(row),
      tip_amount        |-> IF tip(row) # None THEN tip(row) ELSE Num(0),
      passenger_count   |-> passenger_count(row),
      payment_type      |-> get_field(row, <<"payment_type", "payment">>),
      avg_speed_kmh     |-> avg_speed_kmh(dist_km(row, unit), duration_sec(row)),
      fare_per_km       |-> fare_per_km(fare(row), dist_km(row, unit)),
      pickup_hour       |-> pickup_hour(p_dt(row)),
      weekday           |-> weekday(p_dt(row)),
      is_weekend        |-> is_weekend(p_dt(row)),
      haversine_km      |-> Num(RoundDiv(hv_km_pre(row).v, 1000)) ]

\* A row of the exclusion log: the line, the reason and the diagnostic
\* columns the failing stage fills in; the other columns stay empty.
BlankLog ==
    [ pickup_ts |-> None, dropoff_ts |-> None, pickup_lat |-> None,
      pickup_lon |-> None, dropoff_lat |-> None, dropoff_lon |-> None,
      distance |-> None, fare |-> None ]
\* A slip in line 108: enumerate without start=1.
ExclusionRecord_zero_based(i, r, fields) ==
    [line |-> i - 1, reason |-> r] @@ fields @@ BlankLog
ExclusionRecord(i, r, fields) ==
    [line |-> i, reason |-> r] @@ fields @@ BlankLog

(***************************************************************************)
(* Lines 111-206: the body of the loop for data row i.  The stages are     *)
(* tested in order and the first that fails decides.                       *)
(***************************************************************************)
Excluded(i, r, fields) ==
    [cleaned |-> FALSE, reason |-> r, rec |-> ExclusionRecord(i, r, fields)]
Accepted(row, unit) ==
    [cleaned |-> TRUE, reason |-> "", rec |-> CleanedTrip(row, unit)]

\* A slip in the order of the stages: the coordinates are tested before
\* the timestamps.
route_coordinates_first(i, row, unit) ==
    IF bad_coordinates(row)
    THEN Excluded(i, "bad_coordinates",
                  [pickup_lat |-> plat(row), pickup_lon |-> plon(row),
                   dropoff_lat |-> dlat(row), dropoff_lon |-> dlon(row)])
    ELSE IF bad_timestamps(p_dt(row), d_dt(row))
    THEN Excluded(i, "bad_timestamps",
                  [pickup_ts |-> p_ts(row), dropoff_ts |-> d_ts(row)])
    ELSE IF bad_distance(dist_km(row, unit))
    THEN Excluded(i, "bad_distance", [distance |-> dist_km(row, unit)])
    ELSE IF zero_distance(dist_km(row, unit))
    THEN Excluded(i, "zero_distance", [distance |-> dist_km(row, unit)])
    ELSE IF bad_fare(fare(row))
    THEN Excluded(i, "bad_fare", [fare |-> fare(row)])
    ELSE IF bad_tip(tip(row))
    THEN Excluded(i, "bad_tip", [fare |-> fare(row)])
    ELSE IF nonpositive_duration(duration_sec(row))
    THEN Excluded(i, "nonpositive_duration", BlankLog)
    ELSE IF implausible_speed(dist_km(row, unit), duration_sec(row))
    THEN Excluded(i, "implausible_speed", [distance |-> dist_km(row, unit)])
    ELSE Accepted(row, unit)

route(i, row, unit) ==
    IF bad_timestamps(p_dt(row), d_dt(row))
    THEN Excluded(i, "bad_timestamps",
                  [pickup_ts |-> p_ts(row), dropoff_ts |-> d_ts(row)])
    ELSE IF bad_coordinates(row)
    THEN Excluded(i, "bad_coordinates",
                  [pickup_lat |-> plat(row), pickup_lon |-> plon(row),
                   dropoff_lat |-> dlat(row), dropoff_lon |-> dlon(row)])
    ELSE IF bad_distance(dist_km(row, unit))
    THEN Excluded(i, "bad_distance", [distance |-> dist_km(row, unit)])
    ELSE IF zero_distance(dist_km(row, unit))
    THEN Excluded(i, "zero_distance", [distance |-> dist_km(row, unit)])
    ELSE IF bad_fare(fare(row))
    THEN Excluded(i, "bad_fare", [fare |-> fare(row)])
    ELSE IF bad_tip(tip(row))
    THEN Excluded(i, "bad_tip", [fare |-> fare(row)])
    ELSE IF nonpositive_duration(duration_sec(row))
    THEN Excluded(i, "nonpositive_duration", BlankLog)
    ELSE IF implausible_speed(dist_km(row, unit), duration_sec(row))
    THEN Excluded(i, "implausible_speed", [distance |-> dist_km(row, unit)])
    ELSE Accepted(row, unit)

\* A slip in the counter update: excluded[r] = 1.
bump_overwrite(counts, r) ==
    IF r \in DOMAIN counts THEN [counts EXCEPT ![r] = 1]
    ELSE counts @@ (r :> 1)

\* excluded[r] = excluded.get(r, 0) + 1
bump(counts, r) ==
    IF r \in DOMAIN counts THEN [counts EXCEPT ![r] = @ + 1]
    ELSE counts @@ (r :> 1)

\* A slip in the writer: the record goes to the front of the file.
writerow_front(file, rec) == <<rec>> \o file

\* w.writerow / logw.writerow: the record goes to the end of the file.
writerow(file, rec) == Append(file, rec)

(***************************************************************************)
(* Inputs.  A raw row is a function from the columns of the input header   *)
(* to cells.  The one-row files range over a product of cell choices for   *)
(* every field; the longer files are built from a sample of rows, one per  *)
(* outcome, among them rows under the legacy column names.                 *)
(***************************************************************************)
Sec(s) == s * TicksPerSec
T0 == 17 * 3600 + 24 * 60 + 55   \* Monday 17:24:55, in seconds
TSat == 5 * 86400 + 85800   \* Saturday 23:50:00

PickupCells == {EmptyCell, Cell("ymd_hms", Sec(T0)), Cell("ymd_hm", Sec(63000))}
DropoffCells ==
    { Cell("junk", 0), Cell("ymd_hms", Sec(T0)), Cell("ymd_hms_f", Sec(T0) + 1),
      Cell("mdy_hms", Sec(T0 + 480)), Cell("iso_tz", Sec(T0 + 600)) }
PickupPoints == {P1, <<0, 0>>}
DropoffPoints == {P1, P2, P3}
DistanceCells ==
    { EmptyCell, Cell("int", 0), Cell("dec", 0 - 10), Cell("dec", 10),
      Cell("dec", 310), Cell("nan", 0) }
FareCells == {EmptyCell, Cell("dec", 125), Cell("dec", 6000)}
TipCells == {EmptyCell, Cell("dec", 0 - 10), Cell("dec", 20)}
PassengerCells == {EmptyCell, Cell("int", 0), Cell("int", 3), Cell("dec", 3)}

RawRow(pts, dts, pick, drop, dist, f, t, pass, pay) ==
    ("pickup_datetime" :> pts) @@ ("dropoff_datetime" :> dts) @@
    ("pickup_latitude" :> Cell("dec", pick[1])) @@
    ("pickup_longitude" :> Cell("dec", pick[2])) @@
    ("dropoff_latitude" :> Cell("dec", drop[1])) @@
    ("dropoff_longitude" :> Cell("dec", drop[2])) @@
    ("trip_distance" :> dist) @@ ("fare_amount" :> f) @@ ("tip_amount" :> t) @@
    ("passenger_count" :> pass) @@ ("payment_type" :> pay)

AllRows ==
    { RawRow(pts, dts, pick, drop, dist, f, t, pass, EmptyCell) :
        pts \in PickupCells, dts \in DropoffCells, pick \in PickupPoints,
        drop \in DropoffPoints, dist \in DistanceCells, f \in FareCells,
        t \in TipCells, pass \in PassengerCells }

GoodRow ==
    RawRow(Cell("ymd_hms", Sec(T0)), Cell("ymd_hms", Sec(T0 + 480)), P1, P2,
           EmptyCell, EmptyCell, EmptyCell, Cell("int", 1), EmptyCell)
\* A Saturday trip under the legacy names; the new-style pickup column is
\* there but empty, so the lookup falls through to the legacy one.
LegacyRow ==
    ("tpep_pickup_datetime" :> EmptyCell) @@
    ("pickup_datetime" :> Cell("iso_tz", Sec(TSat))) @@
    ("tpep_dropoff_datetime" :> Cell("ymd_hms", Sec(TSat + 900))) @@
    ("pickup_lat" :> Cell("dec", P2[1])) @@ ("pickup_lng" :> Cell("dec", P2[2])) @@
    ("dropoff_lat" :> Cell("dec", P3[1])) @@ ("dropoff_lon" :> Cell("dec", P3[2])) @@
    ("distance" :> Cell("dec", 125)) @@ ("fare" :> Cell("dec", 400)) @@
    ("tip" :> Cell("dec", 55)) @@ ("passengers" :> Cell("int", 2)) @@
    ("payment" :> Cell("int", 1))
SampleRows ==
    { GoodRow, LegacyRow,
      [GoodRow EXCEPT !["dropoff_datetime"] = Cell("ymd_hms", Sec(T0))],
      [GoodRow EXCEPT !["pickup_latitude"] = Cell("int", 0),
                      !["pickup_longitude"] = Cell("int", 0)],
      [GoodRow EXCEPT !["trip_distance"] = Cell("int", 0)],
      [GoodRow EXCEPT !["fare_amount"] = Cell("dec", 6000)],
      [GoodRow EXCEPT !["dropoff_datetime"] = Cell("ymd_hms_f", Sec(T0) + 1)],
      [GoodRow EXCEPT !["trip_distance"] = Cell("dec", 310)] }

RECURSIVE SeqsUpTo(_, _)
SeqsUpTo(S, n) ==
    IF n = 0 THEN {<<>>}
    ELSE LET shorter == SeqsUpTo(S, n - 1)
         IN  shorter \cup {Append(q, r) : q \in shorter, r \in S}

InputFiles == {<<r>> : r \in AllRows} \cup SeqsUpTo(SampleRows, MaxRows)

\* The command lines: --distance-unit miles (the default) or km, with or
\* without --stats, and one that argparse rejects.
CommandLines ==
    [valid : {TRUE}, distance_unit : {"miles", "km"}, stats : BOOLEAN] \cup
    {[valid |-> FALSE, distance_unit |-> "furlongs", stats |-> FALSE]}

out_fields ==
    << "pickup_datetime", "dropoff_datetime", "pickup_lat", "pickup_lon",
       "dropoff_lat", "dropoff_lon", "trip_distance_km", "trip_duration_sec",
       "fare_amount", "tip_amount", "passenger_count", "payment_type",
       "avg_speed_kmh", "fare_per_km", "pickup_hour", "weekday", "is_weekend",
       "haversine_km" >>
log_fields ==
    << "line", "reason", "pickup_ts", "dropoff_ts", "pickup_lat", "pickup_lon",
       "dropoff_lat", "dropoff_lon", "distance", "fare" >>

(***************************************************************************)
(* backend/load_data.py: the bulk loader that copies a cleaned CSV into    *)
(* the trips table.  A CSV file is a record [exists, header, rows]: the    *)
(* header is the sequence of the column names as written (<<>> for a file  *)
(* of zero bytes) and each row maps the names of the header to text cells. *)
(* The environment: the database is there and accepts every statement.     *)
(***************************************************************************)
EXPECTED_COLUMNS ==
    << "pickup_datetime", "dropoff_datetime", "pickup_lat", "pickup_lon",
       "dropoff_lat", "dropoff_lon", "trip_distance_km", "trip_duration_sec",
       "fare_amount", "tip_amount", "passenger_count", "payment_type",
       "avg_speed_kmh", "fare_per_km", "pickup_hour", "weekday", "is_weekend",
       "haversine_km" >>

num_cols_float ==
    { "pickup_lat", "pickup_lon", "dropoff_lat", "dropoff_lon",
      "trip_distance_km", "fare_amount", "tip_amount", "avg_speed_kmh",
      "fare_per_km", "haversine_km" }
num_cols_int ==
    { "trip_duration_sec", "passenger_count", "pickup_hour", "weekday",
      "is_weekend" }

\* str.strip() on the column names that occur: the names written with
\* surrounding blanks, and what strip() makes of them; any other name is
\* returned as it is.
PaddedNames ==
    (" pickup_datetime" :> "pickup_datetime") @@
    ("haversine_km " :> "haversine_km")
strip(h) == IF h \in DOMAIN PaddedNames THEN PaddedNames[h] ELSE h

\* read_csv_header, for a file that has a header line: every name stripped.
read_csv_header(file) == [i \in DOMAIN file.header |-> strip(file.header[i])]

\* validate_header: TRUE when it returns, FALSE when it raises ValueError.
validate_header(found, expected) == found = expected

\* DictWriter.writerow of a cleaned record (clean_transform.py line 205):
\* str() of each value, "" for None.  The two timestamps are text already,
\* the columns of num_cols_int hold Python ints, payment_type the raw cell,
\* the others floats, whose text has a decimal point or is nan.
csv_row(rec) ==
    [ c \in DOMAIN rec |->
        IF c \in {"pickup_datetime", "dropoff_datetime"}
        THEN Cell("ymd_hms", rec[c] * TicksPerSec)
        ELSE IF c \in num_cols_int THEN Cell("int", rec[c])
        ELSE IF rec[c] = None THEN EmptyCell
        ELSE IF c = "payment_type" THEN rec[c]
        ELSE IF rec[c].k = "nan" THEN Cell("nan", 0)
        ELSE Cell("dec", rec[c].v) ]

\* Lines 98-115, the value inserted for one column of one row: row.get by
\* the name of the schema, "" when the row has no such key; "" becomes
\* NULL; float() or int(float()) for the numeric columns, NULL when they
\* raise ValueError (int(float("nan")) does); the text otherwise.
load_value(col, row) ==
    LET val == IF col \in DOMAIN row THEN row[col] ELSE EmptyCell
    IN  IF val = EmptyCell THEN None
        ELSE IF col \in num_cols_float
             THEN IF val.k \in {"int", "dec"} THEN Num(val.v)
                  ELSE IF val.k = "nan" THEN NaN
                  ELSE None
        ELSE IF col \in num_cols_int
             THEN IF val.k \in {"int", "dec"} THEN Num(val.v) ELSE None
        ELSE val

\* Lines 95-116: the tuple of one row, in the order of the schema.
load_row(row) ==
    [i \in DOMAIN EXPECTED_COLUMNS |-> load_value(EXPECTED_COLUMNS[i], row)]

\* Lines 84-118: DELETE when --truncate is given, then the rows of the file
\* inserted in order.
RECURSIVE insert_rows(_, _)
insert_rows(table, rows) ==
    IF rows = <<>> THEN table
    ELSE insert_rows(Append(table, load_row(Head(rows))), Tail(rows))
load_table(table, file, truncate) ==
    insert_rows(IF truncate THEN <<>> ELSE table, file.rows)

\* The loader's command lines.
LoaderCommandLines == [truncate : BOOLEAN, skip_header_check : BOOLEAN]

\* Files the loader may find at its --csv path when the cleaning run did
\* not write there: none, a file of zero bytes, and one-row files whose
\* header has the first two columns swapped, lacks the last column, has
\* one more column, or has blanks around a name.
NoFile == [exists |-> FALSE, header |-> <<>>, rows |-> <<>>]
EmptyFile == [exists |-> TRUE, header |-> <<>>, rows |-> <<>>]
CsvOf(header, row) ==
    [exists |-> TRUE, header |-> header, rows |-> <<row>>]
ForeignRow == csv_row(CleanedTrip(GoodRow, "miles"))
RenameColumn(row, from, to) ==
    [c \in (DOMAIN row \ {from}) \cup {to} |->
        IF c = to THEN row[from] ELSE row[c]]
SwappedHeader ==
    <<EXPECTED_COLUMNS[2], EXPECTED_COLUMNS[1]>> \o Tail(Tail(EXPECTED_COLUMNS))
ShortHeader == SubSeq(EXPECTED_COLUMNS, 1, Len(EXPECTED_COLUMNS) - 1)
LongHeader == Append(EXPECTED_COLUMNS, "vendor_id")
PaddedHeader == <<" pickup_datetime">> \o Tail(EXPECTED_COLUMNS)
ForeignCsvs ==
    { NoFile, EmptyFile,
      CsvOf(SwappedHeader, ForeignRow),
      CsvOf(ShortHeader, [c \in DOMAIN ForeignRow \ {"haversine_km"} |-> ForeignRow[c]]),
      CsvOf(LongHeader, ForeignRow @@ ("vendor_id" :> Cell("int", 1))),
      CsvOf(PaddedHeader,
            RenameColumn(ForeignRow, "pickup_datetime", " pickup_datetime")) }

\* The table before the loader runs: one row of an earlier load.
OldStore == <<load_row(ForeignRow)>>

(***************************************************************************)
(* The run of main().                                                      *)
(***************************************************************************)
VARIABLES
    pc,          \* "start", "loop", "done" or "error"
    args,        \* the command line
    input,       \* the data rows of the input file, once it is open
    total,       \* rows read
    cleaned,     \* rows accepted
    excluded,    \* reason -> count
    outHeader,   \* the header line of the cleaned output
    out,         \* the data rows of the cleaned output
    outLine,     \* history: the data row each cleaned row was written for
    logHeader,   \* the header line of the exclusion log
    log,         \* the data rows of the exclusion log
    statsFile,   \* the summaries written to the stats path
    stdout,      \* the summaries printed
    fatal,       \* what ended the run in error, or "none"
    exitStatus   \* the exit status, -1 while running

\* The run of load_data.main() on the file at the cleaned-output path.
VARIABLES
    ldPc,        \* "idle", "done" or "error"
    ldArgs,      \* the loader's command line
    ldCsv,       \* the CSV file the loader found at its --csv path
    ldHeaderOK,  \* "Header validation: OK" was printed
    store,       \* the rows of the trips table
    ldExit       \* the loader's exit status, -1 before it ends

ldVars == << ldPc, ldArgs, ldCsv, ldHeaderOK, store, ldExit >>

vars == << pc, args, input, total, cleaned, excluded, outHeader, out, outLine,
           logHeader, log, statsFile, stdout, fatal, exitStatus, ldVars >>

NoCounts == [r \in {} |-> 0]

Init ==
    /\ pc = "start"
    /\ args \in CommandLines
    /\ input = <<>>
    /\ total = 0
    /\ cleaned = 0
    /\ excluded = NoCounts
    /\ outHeader = <<>>
    /\ out = <<>>
    /\ outLine = <<>>
    /\ logHeader = <<>>
    /\ log = <<>>
    /\ statsFile = <<>>
    /\ stdout = <<>>
    /\ fatal = "none"
    /\ exitStatus = 0 - 1
    /\ ldPc = "idle"
    /\ ldArgs = [truncate |-> FALSE, skip_header_check |-> FALSE]
    /\ ldCsv = NoFile
    /\ ldHeaderOK = FALSE
    /\ store = OldStore
    /\ ldExit = 0 - 1

\* A slip in the error path: the failure is swallowed and the run exits 0.
Abort_swallowed(why, status) ==
    /\ pc' = "error"
    /\ fatal' = why
    /\ exitStatus' = 0
    /\ UNCHANGED << args, input, total, cleaned, excluded, outHeader, out,
                    outLine, logHeader, log, statsFile, stdout, ldVars >>

\* An uncaught exception, or argparse's error exit: nothing else changes.
Abort(why, status) ==
    /\ pc' = "error"
    /\ fatal' = why
    /\ exitStatus' = status
    /\ UNCHANGED << args, input, total, cleaned, excluded, outHeader, out,
                    outLine, logHeader, log, statsFile, stdout, ldVars >>

\* Lines 63-106: parse the command line, open the three files, write the
\* two headers.  argparse exits with status 2; a failed open is an
\* uncaught exception, status 1.
Startup ==
    /\ pc = "start"
    /\ \/ /\ ~args.valid
          /\ Abort("bad_args", 2)
       \/ /\ args.valid
          /\ \E why \in {"no_input", "out_unwritable", "log_unwritable"} :
                Abort(why, 1)
       \/ /\ args.valid
          /\ \E file \in InputFiles : input' = file
          /\ outHeader' = out_fields
          /\ logHeader' = log_fields
          /\ pc' = "loop"
          /\ UNCHANGED << args, total, cleaned, excluded, out, outLine, log,
                          statsFile, stdout, fatal, exitStatus, ldVars >>

\* Lines 108-206: one iteration of the loop, for data row total + 1.
ProcessRow ==
    /\ pc = "loop"
    /\ total < Len(input)
    /\ LET i == total + 1
           res == route(i, input[i], args.distance_unit)
       IN  /\ total' = i
           /\ IF res.cleaned
              THEN /\ out' = writerow(out, res.rec)
                   /\ outLine' = Append(outLine, i)
                   /\ cleaned' = cleaned + 1
                   /\ UNCHANGED << excluded, log >>
              ELSE /\ excluded' = bump(excluded, res.reason)
                   /\ log' = writerow(log, res.rec)
                   /\ UNCHANGED << out, outLine, cleaned >>
    /\ UNCHANGED << pc, args, input, outHeader, logHeader, statsFile, stdout,
                    fatal, exitStatus, ldVars >>

\* Lines 208-213.
RunSummary ==
    [ total_rows |-> total, cleaned_rows |-> cleaned,
      excluded_rows |-> total - cleaned, excluded_counts |-> excluded ]

\* Lines 208-217, at the end of the input: build the summary, write it to
\* the stats path when one is given, then print it.  The stats path is
\* opened before the print, and a failed open is an uncaught exception.
Finish ==
    /\ pc = "loop"
    /\ total = Len(input)
    /\ \/ /\ args.stats
          /\ Abort("stats_unwritable", 1)
       \/ /\ statsFile' = IF args.stats THEN <<RunSummary>> ELSE statsFile
          /\ stdout' = Append(stdout, RunSummary)
          /\ pc' = "done"
          /\ exitStatus' = 0
          /\ UNCHANGED << args, input, total, cleaned, excluded, outHeader,
                          out, outLine, logHeader, log, fatal, ldVars >>

Next == Startup \/ ProcessRow \/ Finish

Spec == Init /\ [][Next]_vars

(***************************************************************************)
(* The run of load_data.main(), after the cleaning run has ended.          *)
(***************************************************************************)
\* The file at the loader's --csv path: the cleaned output when the
\* cleaning run opened it (clean_transform.py lines 99, 103-104), a file of
\* zero bytes when the run opened it and then failed to open the log, and
\* otherwise whatever was there before.
CleanedCsv ==
    [ exists |-> TRUE, header |-> outHeader,
      rows |-> [k \in DOMAIN out |-> csv_row(out[k])] ]
CsvAtPath ==
    IF outHeader # <<>> THEN {CleanedCsv}
    ELSE IF fatal = "log_unwritable" THEN {EmptyFile}
    ELSE ForeignCsvs

\* Lines 64-125.  A missing file exits 1; unless --skip-header-check is
\* given, a file without a header line or with a header that fails
\* validate_header raises ValueError outside the try block, status 1, with
\* the database not yet opened; otherwise "Header validation: OK" is
\* printed when the header was checked, and the table is loaded.
Load ==
    /\ ldPc = "idle"
    /\ pc \in {"done", "error"}
    /\ \E a \in LoaderCommandLines, file \in CsvAtPath :
          LET checked == ~a.skip_header_check
              raises ==
                  /\ checked
                  /\ \/ file.header = <<>>
                     \/ ~validate_header(read_csv_header(file), EXPECTED_COLUMNS)
          IN  /\ ldArgs' = a
              /\ ldCsv' = file
              /\ IF ~file.exists \/ raises
                 THEN /\ ldPc' = "error"
                      /\ ldExit' = 1
                      /\ UNCHANGED << ldHeaderOK, store >>
                 ELSE /\ ldHeaderOK' = checked
                      /\ store' = load_table(store, file, a.truncate)
                      /\ ldPc' = "done"
                      /\ ldExit' = 0
    /\ UNCHANGED << pc, args, input, total, cleaned, excluded, outHeader, out,
                    outLine, logHeader, log, statsFile, stdout, fatal,
                    exitStatus >>

NextLoad == Startup \/ ProcessRow \/ Finish \/ Load

SpecLoad == Init /\ [][NextLoad]_vars

(***************************************************************************)
(* Vocabulary of the properties.                                           *)
(***************************************************************************)
RECURSIVE SumCounts(_)
SumCounts(counts) ==
    IF DOMAIN counts = {} THEN 0
    ELSE LET r == CHOOSE x \in DOMAIN counts : TRUE
         IN  counts[r] + SumCounts([x \in DOMAIN counts \ {r} |-> counts[x]])

\* The reason codes in the order of the stages, and the condition of
\* stage k evaluated on a row.
StageReasons ==
    << "bad_timestamps", "bad_coordinates", "bad_distance", "zero_distance",
       "bad_fare", "bad_tip", "nonpositive_duration", "implausible_speed" >>
StageFails(k, row, unit) ==
    CASE k = 1 -> bad_timestamps(p_dt(row), d_dt(row))
      [] k = 2 -> bad_coordinates(row)
      [] k = 3 -> bad_distance(dist_km(row, unit))
      [] k = 4 -> zero_distance(dist_km(row, unit))
      [] k = 5 -> bad_fare(fare(row))
      [] k = 6 -> bad_tip(tip(row))
      [] k = 7 -> nonpositive_duration(duration_sec(row))
      [] k = 8 -> implausible_speed(dist_km(row, unit), duration_sec(row))
StageOf(r) == CHOOSE k \in DOMAIN StageReasons : StageReasons[k] = r

\* The exclusion-log rows written for data row i, and the cleaned rows.
LogRowsOf(i) == {k \in DOMAIN log : log[k].line = i}
OutRowsOf(i) == {k \in DOMAIN outLine : outLine[k] = i}
ExcludedAs(i, r) == \E k \in LogRowsOf(i) : log[k].reason = r
Summaries == {stdout[k] : k \in DOMAIN stdout} \cup {statsFile[k] : k \in DOMAIN statsFile}

(***************************************************************************)
(* C1.  After any number of rows, and in every summary emitted, the total  *)
(* is the cleaned count plus the excluded count, and the excluded count    *)
(* (total - cleaned) is the sum of the per-reason counters.                *)
(***************************************************************************)
C1_CountsAddUp ==
    /\ total - cleaned = SumCounts(excluded)
    /\ total = cleaned + SumCounts(excluded)
    /\ \A s \in Summaries :
          /\ s.total_rows = s.cleaned_rows + s.excluded_rows
          /\ s.excluded_rows = SumCounts(s.excluded_counts)

\* A finished three-row run with an accepted row and two rows excluded
\* for the same reason.
C1_Witness ==
    /\ pc = "done" /\ stdout # <<>>
    /\ total = 3 /\ cleaned = 1
    /\ \E r \in DOMAIN excluded : excluded[r] = 2

(***************************************************************************)
(* C2.  Every data row read has produced exactly one record, a cleaned row *)
(* or an exclusion-log row; the cleaned output holds cleaned_rows rows and *)
(* the log excluded_rows rows; every log row carries the 1-based index of  *)
(* the data row it was written for.                                        *)
(***************************************************************************)
C2_OneRecordPerRow ==
    /\ Len(out) = cleaned
    /\ Len(outLine) = Len(out)
    /\ Len(log) = total - cleaned
    /\ \A i \in 1..total :
          Cardinality(OutRowsOf(i)) + Cardinality(LogRowsOf(i)) = 1
    /\ \A k \in DOMAIN log :
          /\ log[k].line \in 1..total
          /\ ~route(log[k].line, input[log[k].line], args.distance_unit).cleaned
          /\ log[k] = route(log[k].line, input[log[k].line],
                            args.distance_unit).rec
    /\ \A k \in DOMAIN out :
          /\ outLine[k] \in 1..total
          /\ route(outLine[k], input[outLine[k]], args.distance_unit).cleaned
          /\ out[k] = CleanedTrip(input[outLine[k]], args.distance_unit)

\* A run whose first row was accepted and whose second and third rows were
\* excluded.
C2_Witness ==
    /\ pc = "done" /\ total = 3
    /\ Len(out) = 1 /\ outLine[1] = 1
    /\ Len(log) = 2 /\ log[1].line = 2 /\ log[2].line = 3

(***************************************************************************)
(* C3.  The reason recorded for a row is that of the first failing stage:  *)
(* a row excluded with the reason of stage k fails stage k and passes      *)
(* every stage before k.  A row whose dropoff instant is not after its     *)
(* pickup instant is excluded as bad_timestamps, whatever its other fields.*)
(***************************************************************************)
C3_FirstFailingStage ==
    /\ \A n \in DOMAIN log :
          LET row == input[log[n].line]
              k == StageOf(log[n].reason)
          IN  /\ log[n].reason \in {StageReasons[j] : j \in DOMAIN StageReasons}
              /\ StageFails(k, row, args.distance_unit)
              /\ \A j \in 1..(k - 1) : ~StageFails(j, row, args.distance_unit)
    /\ \A i \in 1..total :
          LET p == p_dt(input[i])
              d == d_dt(input[i])
          IN  (p # None /\ d # None /\ d.v <= p.v) => ExcludedAs(i, "bad_timestamps")

\* A row excluded as bad_timestamps (dropoff before pickup) that would
\* also fail the coordinate, distance, fare and tip stages.
C3_Witness ==
    \E n \in DOMAIN log :
        LET row == input[log[n].line]
        IN  /\ log[n].reason = "bad_timestamps"
            /\ p_dt(row) # None /\ d_dt(row) # None /\ d_dt(row).v < p_dt(row).v
            /\ bad_coordinates(row)
            /\ reported_dist(row) = Num(0 - 10)
            /\ bad_fare(fare(row))
            /\ bad_tip(tip(row))

(***************************************************************************)
(* C4.  A row with valid timestamps and both endpoints in the bounding box *)
(* whose resolved distance is exactly zero is excluded as zero_distance,   *)
(* never as bad_distance; bad_distance is recorded only for a resolved     *)
(* distance that is absent or negative.                                    *)
(***************************************************************************)
C4_ZeroIsNotBadDistance ==
    /\ \A i \in 1..total :
          LET row == input[i]
          IN  ( /\ ~bad_timestamps(p_dt(row), d_dt(row))
                /\ in_bbox(plat(row), plon(row))
                /\ in_bbox(dlat(row), dlon(row))
                /\ dist_km(row, args.distance_unit) = Num(0) )
              => /\ ExcludedAs(i, "zero_distance")
                 /\ ~ExcludedAs(i, "bad_distance")
    /\ \A n \in DOMAIN log :
          log[n].reason = "bad_distance" =>
              LET dist == dist_km(input[log[n].line], args.distance_unit)
              IN  dist = None \/ (dist.k = "num" /\ dist.v < 0)

\* A finished run that excluded one row for a reported distance of zero
\* between two different points.
C4_Witness ==
    /\ pc = "done"
    /\ \E n \in DOMAIN log :
          /\ log[n].reason = "zero_distance"
          /\ reported_dist(input[log[n].line]) = Num(0)
          /\ hv_km_pre(input[log[n].line]) # Num(0)

(***************************************************************************)
(* C5.  Every distance the run records (the trip distance of a cleaned row,*)
(* the distance column of a log row) is the reported distance times        *)
(* 1.60934 under miles and the reported distance itself under km whenever  *)
(* a reported distance is present, negative and zero included, and is the  *)
(* haversine distance of the endpoints exactly when none is present.       *)
(***************************************************************************)
Converted(reported, unit) ==
    IF reported.k = "nan" THEN NaN
    ELSE IF unit = "miles" THEN Num((reported.v * 160934))
    ELSE Num(reported.v * 100000)
ResolvedAsClaimed(row, dist) ==
    IF reported_dist(row) # None
    THEN dist = Converted(reported_dist(row), args.distance_unit)
    ELSE dist = hv_km_pre(row)
C5_DistanceResolution ==
    /\ \A k \in DOMAIN out :
          ResolvedAsClaimed(input[outLine[k]], out[k].trip_distance_km)
    /\ \A n \in DOMAIN log :
          log[n].reason \in {"bad_distance", "zero_distance", "implausible_speed"}
              => ResolvedAsClaimed(input[log[n].line], log[n].distance)

\* A run under miles that has recorded a converted negative distance, a
\* converted positive one and a haversine fallback.
C5_Witness ==
    /\ args.distance_unit = "miles"
    /\ \E n \in DOMAIN log :
          /\ log[n].reason = "bad_distance"
          /\ log[n].distance = Num(0 - 1609340)
          /\ hv_km_pre(input[log[n].line]).v > 0

(***************************************************************************)
(* C6.  As claimed: the integer parser converts through floating point, so *)
(* a passenger cell holding the decimal rendering of a whole number n,     *)
(* such as 3.0, yields n in the cleaned row, while an empty cell or the    *)
(* placeholder sentinel yields absent (and so the default 1).              *)
(***************************************************************************)
PassengerCell(row) == get_field(row, <<"passenger_count", "passengers">>)
C6_DecimalParsesToInteger ==
    \A k \in DOMAIN out :
        LET c == PassengerCell(input[outLine[k]])
        IN  /\ (c.k = "dec" /\ c.v # 0) => out[k].passenger_count = c.v
            /\ c.k \in {"none", "null"} => out[k].passenger_count = 1

(***************************************************************************)
(* C7.  As claimed: the passenger count of a cleaned row is n whenever the *)
(* cell parses to an integer n, zero included, and is 1 only when the      *)
(* field is absent.                                                        *)
(***************************************************************************)
C7_DefaultOnlyWhenAbsent ==
    \A k \in DOMAIN out :
        LET n == parse_int(PassengerCell(input[outLine[k]]))
        IN  IF n # None THEN out[k].passenger_count = n.v
            ELSE out[k].passenger_count = 1

(***************************************************************************)
(* C8.  Rows are routed one at a time in input order: between two          *)
(* iterations every row read so far has its record, the cleaned rows       *)
(* appear in the order of the data rows they were written for, and so do   *)
(* the rows of the exclusion log.                                          *)
(***************************************************************************)
C8_OrderPreserved ==
    /\ pc = "loop" => Len(out) + Len(log) = total
    /\ \A a, b \in DOMAIN out : a < b => outLine[a] < outLine[b]
    /\ \A k \in DOMAIN out :
          out[k] = CleanedTrip(input[outLine[k]], args.distance_unit)
    /\ \A a, b \in DOMAIN log : a < b => log[a].line < log[b].line
    /\ \A k \in DOMAIN log :
          log[k].reason =
              route(log[k].line, input[log[k].line], args.distance_unit).reason

\* Three rows, the first and third accepted with different records, the
\* second excluded between them.
C8_Witness ==
    /\ pc = "done" /\ total = 3
    /\ Len(out) = 2 /\ outLine = <<1, 3>> /\ out[1] # out[2]
    /\ Len(log) = 1 /\ log[1].line = 2

(***************************************************************************)
(* C9.  As claimed: the summary is printed at most once and only after the *)
(* last row, and every run that has reached the end of its input and ended *)
(* has printed it, with or without a stats path.                           *)
(***************************************************************************)
RunEnded == pc \in {"done", "error"}
ReachedEndOfInput == logHeader # <<>> /\ total = Len(input) /\ RunEnded
C9_SummaryAlwaysEchoed ==
    /\ Len(stdout) <= 1
    /\ stdout # <<>> => (total = Len(input) /\ stdout[1].total_rows = Len(input))
    /\ ReachedEndOfInput => Len(stdout) = 1

(***************************************************************************)
(* C10.  A run that ends on invalid arguments, a missing input file or an  *)
(* output or log path that cannot be opened has counted no row, written no *)
(* cleaned and no exclusion record, emitted no summary, and has a non-zero *)
(* exit status; and the step that processes a row, whatever the fate of    *)
(* the row, never puts the run in the error state.                         *)
(***************************************************************************)
StartupFatal == {"bad_args", "no_input", "out_unwritable", "log_unwritable"}
NothingProcessed ==
    /\ total = 0 /\ cleaned = 0 /\ excluded = NoCounts
    /\ out = <<>> /\ log = <<>>
    /\ outHeader = <<>> /\ logHeader = <<>>
    /\ stdout = <<>> /\ statsFile = <<>>
C10_FatalBeforeAnyRow ==
    /\ [](fatal \in StartupFatal =>
            (pc = "error" /\ exitStatus > 0 /\ NothingProcessed))
    /\ [](log # <<>> => fatal \notin StartupFatal)
    /\ [][total' # total => (pc' = "loop" /\ fatal' = "none" /\ exitStatus' = 0 - 1)]_vars

\* A run with valid arguments that ended at startup in error.
C10_Witness ==
    /\ args.valid /\ pc = "error" /\ fatal = "log_unwritable" /\ exitStatus = 1

(***************************************************************************)
(* C11.  As claimed: a loader run without --skip-header-check changes the  *)
(* table only when the header of its CSV equals the schema, column for     *)
(* column and in order, and otherwise ends in error with the table as it   *)
(* was, --truncate or not; the header clean_transform.main writes is the   *)
(* schema, and a cleaned output file passes the header validation.         *)
(***************************************************************************)
LoaderChecked == ldPc # "idle" /\ ~ldArgs.skip_header_check
C11_ExactHeaderOnly ==
    /\ (LoaderChecked /\ ldCsv.header # EXPECTED_COLUMNS) =>
            (ldPc = "error" /\ ldExit # 0 /\ ~ldHeaderOK /\ store = OldStore)
    /\ outHeader # <<>> => outHeader = EXPECTED_COLUMNS
    /\ (LoaderChecked /\ outHeader # <<>>) =>
            (ldPc = "done" /\ ldHeaderOK /\ ldCsv.header = outHeader)

(***************************************************************************)
(* C12.  As claimed: every cleaned row comes from a data row with both     *)
(* timestamps present, dropoff after pickup and both endpoints in the      *)
(* bounding box, and carries a distance > 0, a duration >= 1 s, a speed    *)
(* <= 120 km/h, a fare that is absent or within [0, 500], a tip >= 0, an   *)
(* hour in 0..23, a weekday in 0..6 and is_weekend = 1 exactly for         *)
(* weekdays 5 and 6.                                                       *)
(***************************************************************************)
C12_CleanedRowsAreValid ==
    \A k \in DOMAIN out :
        LET r == out[k]
            row == input[outLine[k]]
        IN  /\ p_dt(row) # None /\ d_dt(row) # None
            /\ d_dt(row).v > p_dt(row).v
            /\ in_bbox(plat(row), plon(row)) /\ in_bbox(dlat(row), dlon(row))
            /\ r.trip_distance_km.k = "num" /\ r.trip_distance_km.v > 0
            /\ r.trip_duration_sec >= 1
            /\ r.avg_speed_kmh.k = "num" /\ r.avg_speed_kmh.v <= 120 * 1000
            /\ \/ r.fare_amount = None
               \/ /\ r.fare_amount.k = "num"
                  /\ 0 <= r.fare_amount.v /\ r.fare_amount.v <= 500 * 10
            /\ r.tip_amount.k = "num" /\ r.tip_amount.v >= 0
            /\ r.pickup_hour \in 0..23
            /\ r.weekday \in 0..6
            /\ (r.is_weekend = 1) <=> (r.weekday >= 5)
            /\ r.is_weekend \in {0, 1}

(***************************************************************************)
(* C13.  A row is excluded as nonpositive_duration only when its dropoff   *)
(* is after its pickup by less than one second; a row whose two timestamps *)
(* are whole seconds and that passes bad_timestamps has a duration >= 1    *)
(* and is never excluded as nonpositive_duration.                          *)
(***************************************************************************)
WholeSecond(dt) == dt.v % TicksPerSec = 0
C13_NonpositiveDurationIsSubSecond ==
    /\ \A n \in DOMAIN log :
          log[n].reason = "nonpositive_duration" =>
              LET row == input[log[n].line]
              IN  /\ p_dt(row) # None /\ d_dt(row) # None
                  /\ d_dt(row).v > p_dt(row).v
                  /\ d_dt(row).v - p_dt(row).v < TicksPerSec
    /\ \A i \in 1..total :
          LET p == p_dt(input[i])
              d == d_dt(input[i])
          IN  (p # None /\ d # None /\ d.v > p.v /\ WholeSecond(p) /\ WholeSecond(d))
              => /\ (d.v - p.v) \div TicksPerSec >= 1
                 /\ ~ExcludedAs(i, "nonpositive_duration")

\* A finished run that excluded a row as nonpositive_duration and routed a
\* whole-second row with valid timestamps.
C13_Witness ==
    /\ pc = "done"
    /\ \E n \in DOMAIN log : log[n].reason = "nonpositive_duration"
    /\ \E i \in 1..total :
          /\ p_dt(input[i]) # None /\ d_dt(input[i]) # None
          /\ WholeSecond(p_dt(input[i])) /\ WholeSecond(d_dt(input[i]))
          /\ d_dt(input[i]).v > p_dt(input[i]).v

=============================================================================
